---------------------------- MODULE Spec2Model ----------------------------
(***************************************************************************)
(* Binomial-lattice bond pricing (binomial_rates_model_bond_pricing.py)    *)
(* and the Black-Derman-Toy calibration script                             *)
(* (BDT_rates_model_ZCB_pricing.py).                                       *)
(*                                                                         *)
(* Numbers are exact rationals <<n, d>> in lowest terms with d > 0; the    *)
(* source computes with IEEE doubles, so an equality below is the exact    *)
(* identity the floating-point values approximate.  A lattice is a         *)
(* function m[i][j], row i, column j, like the source's square arrays.     *)
(***************************************************************************)
EXTENDS Integers, Sequences, FiniteSets, TLC

VARIABLES
    call,     \* the function of the pricing module last called ("none": idle)
    args,     \* its arguments, a record
    ret,      \* what the call produced: [kind |-> ..., val |-> ...]
    globals,  \* the calibration script's module-level b, t, qu, face_value
    pc,       \* position of the calibration script (BDT module level)
    mr,       \* script: market rates, mr = load_market_rates(t)/100
    res,      \* script: the optimizer's result [success, x, message]
    zcb,      \* script: face_value*ZCB_prices(optimal_a, b, t, qu)
    printed   \* script: the lines printed so far

vars == <<call, args, ret, globals, pc, mr, res, zcb, printed>>

----------------------------------------------------------------------------
(* Exact rational arithmetic *)

Abs(x) == IF x < 0 THEN -x ELSE x

RECURSIVE GCD(_, _)
GCD(a, b) == IF b = 0 THEN a ELSE GCD(b, a % b)

Q(n, d) ==
    LET s == IF d < 0 THEN -1 ELSE 1
        g == GCD(Abs(n), Abs(d))
    IN  <<(s * n) \div g, (s * d) \div g>>

I(n) == <<n, 1>>
Zero == I(0)
One == I(1)

\* sums and products cancel common factors first, which keeps the
\* intermediate integers small
RAdd(x, y) ==
    LET g == GCD(x[2], y[2])
    IN  Q(x[1] * (y[2] \div g) + y[1] * (x[2] \div g), x[2] * (y[2] \div g))
RNeg(x) == <<-x[1], x[2]>>
RSub(x, y) == RAdd(x, RNeg(y))
RMul(x, y) ==
    LET g1 == GCD(Abs(x[1]), y[2])
        g2 == GCD(Abs(y[1]), x[2])
    IN  Q((x[1] \div g1) * (y[1] \div g2), (x[2] \div g2) * (y[2] \div g1))
RDiv(x, y) == RMul(x, Q(y[2], y[1]))
RLe(x, y) ==
    LET g == GCD(x[2], y[2])
    IN  x[1] * (y[2] \div g) <= y[1] * (x[2] \div g)
RLt(x, y) == ~RLe(y, x)
RMax(x, y) == IF RLe(x, y) THEN y ELSE x

RECURSIVE RPow(_, _)
RPow(x, n) == IF n = 0 THEN One ELSE RMul(x, RPow(x, n - 1))

\* a float division of numpy: x/0 is inf, -inf or nan, never an exception
FDiv(x, y) ==
    IF y[1] # 0 THEN RDiv(x, y)
    ELSE IF x[1] > 0 THEN "inf" ELSE IF x[1] < 0 THEN "-inf" ELSE "nan"

\* 1/(1+rate)
Disc(rate) == RDiv(One, RAdd(One, rate))

\* a numpy array is held as the table of its values (TLC keeps a function
\* constructor unevaluated until it is compared)
Array(f) == IF f = f THEN f ELSE f

\* np.zeros((n, n)), rows and columns 0..n-1
Zeros(n) == Array([i \in 0..(n - 1) |-> [j \in 0..(n - 1) |-> Zero]])

----------------------------------------------------------------------------
(* binomial_rates_model_bond_pricing.py *)

\* RatesRow with the source slice not shifted: rt[i, i:] = d*rt[i-1, i:]
RatesRow_unshifted(rt, d, t, i) ==
    Array([k \in 0..t |->
              IF k = i
              THEN [j \in 0..t |-> IF j >= i THEN RMul(d, rt[i - 1][j]) ELSE rt[k][j]]
              ELSE rt[k]])

\* rates_tree, line 21: rt[i, i:] = d*rt[i-1, i-1:t]
RatesRow(rt, d, t, i) ==
    Array([k \in 0..t |->
              IF k = i
              THEN [j \in 0..t |-> IF j >= i THEN RMul(d, rt[i - 1][j - 1]) ELSE rt[k][j]]
              ELSE rt[k]])

RECURSIVE RatesRows(_, _, _, _)
RatesRows(rt, d, t, i) ==
    IF i > t THEN rt ELSE RatesRows(RatesRow(rt, d, t, i), d, t, i + 1)

\* rates_tree(r, u, d, t) for t >= 0: the (t+1) x (t+1) lattice
rates_tree(r, u, d, t) ==
    LET rt0 == Array([k \in 0..t |-> [j \in 0..t |->
                         IF k = 0 THEN RMul(r, RPow(u, j)) ELSE Zero]])
    IN  RatesRows(rt0, d, t, 1)

\* what rates_tree(r, u, d, t) raises: np.zeros of a negative shape is a
\* ValueError, rt[0,:] of a 0 x 0 array an IndexError
rates_tree_raises(t) ==
    IF t + 1 < 0 THEN "ValueError" ELSE IF t + 1 = 0 THEN "IndexError" ELSE "none"

\* lat[:i+1, i] = col, col the values for the rows 0..i of column i
SetCol(lat, i, col) ==
    Array([k \in DOMAIN lat |-> [j \in DOMAIN lat[k] |->
              IF j = i /\ k <= i THEN col[k] ELSE lat[k][j]]])

\* lat[:, -1] = col: the last column, every row
SetLast(lat, col) ==
    LET n == Cardinality(DOMAIN lat) - 1
    IN  Array([k \in DOMAIN lat |-> [j \in DOMAIN lat[k] |->
                  IF j = n THEN col[k] ELSE lat[k][j]]])

\* (1/(1+rt[k,i]))*(qu*lat[k,i+1] + qd*lat[k+1,i+1])
Expect(lat, rt, qu, qd, k, i) ==
    RMul(Disc(rt[k][i]),
         RAdd(RMul(qu, lat[k][i + 1]), RMul(qd, lat[k + 1][i + 1])))

\* elementary price lattice, first loop (lines 32-34): the two edges
EptEdge(ept, rt, qu, qd, i) ==
    LET top == [ept EXCEPT ![0][i] =
                   RMul(qu, RDiv(ept[0][i - 1], RAdd(One, rt[0][i - 1])))]
    IN  [top EXCEPT ![i][i] =
            RMul(qd, RDiv(top[i - 1][i - 1], RAdd(One, rt[i - 1][i - 1])))]

RECURSIVE EptEdges(_, _, _, _, _, _)
EptEdges(ept, rt, qu, qd, t, i) ==
    IF i > t THEN ept
    ELSE EptEdges(EptEdge(ept, rt, qu, qd, i), rt, qu, qd, t, i + 1)

\* second loop (lines 36-37): the interior rows 1..i-1 of column i,
\* ept[1:i, i] = qu*(1/(1+rt[0:i-1,i-1]))*ept[0:i-1,i-1]
\*             + qd*(1/(1+rt[1:i,i-1]))*ept[1:i,i-1]
EptInterior(ept, rt, qu, qd, i) ==
    Array([k \in DOMAIN ept |-> [j \in DOMAIN ept[k] |->
              IF j = i /\ 1 <= k /\ k <= i - 1
              THEN RAdd(RMul(RMul(qu, Disc(rt[k - 1][i - 1])), ept[k - 1][i - 1]),
                        RMul(RMul(qd, Disc(rt[k][i - 1])), ept[k][i - 1]))
              ELSE ept[k][j]]])

RECURSIVE EptInteriors(_, _, _, _, _, _)
EptInteriors(ept, rt, qu, qd, t, i) ==
    IF i > t THEN ept
    ELSE EptInteriors(EptInterior(ept, rt, qu, qd, i), rt, qu, qd, t, i + 1)

\* the body of elementary_price_tree after rt is built (t >= 1)
EptFrom(rt, t, qu, qd) ==
    LET ept0 == [Zeros(t + 1) EXCEPT ![0][0] = One]
    IN  EptInteriors(EptEdges(ept0, rt, qu, qd, t, 1), rt, qu, qd, t, 1)

elementary_price_tree(r, u, d, t, qu, qd) ==
    EptFrom(rates_tree(r, u, d, t - 1), t, qu, qd)

\* for i in range(hi, lo - 1, -1):
\*     lat[:i+1, i] = cash + (1/(1+rt[:i+1,i]))*(qu*lat[:i+1,i+1] + qd*lat[1:i+2,i+1])
RECURSIVE DiscountCols(_, _, _, _, _, _, _)
DiscountCols(lat, rt, qu, qd, cash, hi, lo) ==
    IF hi < lo THEN lat
    ELSE DiscountCols(
             SetCol(lat, hi, [k \in 0..hi |->
                                 RAdd(cash, Expect(lat, rt, qu, qd, k, hi))]),
             rt, qu, qd, cash, hi - 1, lo)

\* zcb_price(face_value, t, r, u, d, qu, qd) for t >= 1: the whole lattice
zcb_price(face_value, t, r, u, d, qu, qd) ==
    LET rt == rates_tree(r, u, d, t - 1)
        z0 == SetLast(Zeros(t + 1), [k \in 0..t |-> face_value])
    IN  DiscountCols(z0, rt, qu, qd, Zero, t - 1, 0)

\* cb_price with the terminal payoff (1+c)*face_value paid at every step
cb_price_terminal_each_step(face_value, t, c, r, u, d, qu, qd) ==
    LET rt == rates_tree(r, u, d, t - 1)
        cb0 == SetLast(Zeros(t + 1), 
                       [k \in 0..t |-> RMul(RAdd(One, c), face_value)])
        cb == DiscountCols(cb0, rt, qu, qd, RMul(RAdd(One, c), face_value), t - 1, 0)
    IN  cb[0][0]

\* cb_price(face_value, t, c, r, u, d, qu, qd) for t >= 1: the root value
cb_price(face_value, t, c, r, u, d, qu, qd) ==
    LET rt == rates_tree(r, u, d, t - 1)
        cb0 == SetLast(Zeros(t + 1), 
                       [k \in 0..t |-> RMul(RAdd(One, c), face_value)])
        cb == DiscountCols(cb0, rt, qu, qd, RMul(face_value, c), t - 1, 0)
    IN  cb[0][0]

\* cb_forward_price for 0 < ft < t: line 85 divides the root by the whole
\* lattice zcb_price(1, ft, ...), a float by an (ft+1) x (ft+1) array
cb_forward_price(face_value, ft, t, c, r, u, d, qu, qd) ==
    LET rt == rates_tree(r, u, d, t - 1)
        cb0 == SetLast(Zeros(t + 1), 
                       [k \in 0..t |-> RMul(RAdd(One, c), face_value)])
        cb1 == DiscountCols(cb0, rt, qu, qd, RMul(face_value, c), t - 1, ft + 1)
        cb == DiscountCols(cb1, rt, qu, qd, Zero, ft, 0)
        z == zcb_price(One, ft, r, u, d, qu, qd)
    IN  [k \in DOMAIN z |-> [j \in DOMAIN z[k] |-> FDiv(cb[0][0], z[k][j])]]

\* for i in range(hi, -1, -1):
\*     lat[:i+1, i] = qu*lat[:i+1, i+1] + qd*lat[1:i+2, i+1]
RECURSIVE FuturesCols(_, _, _, _)
FuturesCols(lat, qu, qd, hi) ==
    IF hi < 0 THEN lat
    ELSE FuturesCols(
             SetCol(lat, hi, [k \in 0..hi |->
                                 RAdd(RMul(qu, lat[k][hi + 1]),
                                      RMul(qd, lat[k + 1][hi + 1]))]),
             qu, qd, hi - 1)

\* cb_futures_price for 0 <= ft < t: the root value
cb_futures_price(face_value, ft, t, c, r, u, d, qu, qd) ==
    LET rt == rates_tree(r, u, d, t - 1)
        cb0 == SetLast(Zeros(t + 1), 
                       [k \in 0..t |-> RMul(RAdd(One, c), face_value)])
        cb1 == DiscountCols(cb0, rt, qu, qd, RMul(face_value, c), t - 1, ft + 1)
        cb2 == DiscountCols(cb1, rt, qu, qd, Zero, ft, ft)
    IN  FuturesCols(cb2, qu, qd, ft - 1)[0][0]

\* swaption_lattice[:,-1] = (rt[:,-1] - c*np.ones(t))/(1 + rt[:,-1])
SwapTerminal(rt, c, t) ==
    SetLast(Zeros(t), [k \in 0..(t - 1) |->
                          RDiv(RSub(rt[k][t - 1], c), RAdd(One, rt[k][t - 1]))])

\* for i in range(hi, lo - 1, -1): lat[:i+1, i] = (1/(1 + rt[:i+1, i]))
\*     *((rt[:i+1,i] - c) + qu*lat[:i+1, i+1] + qd*lat[1:i+2, i+1])
RECURSIVE SwapCols(_, _, _, _, _, _, _)
SwapCols(lat, rt, c, qu, qd, hi, lo) ==
    IF hi < lo THEN lat
    ELSE SwapCols(
             SetCol(lat, hi, [k \in 0..hi |->
                 RMul(Disc(rt[k][hi]),
                      RAdd(RSub(rt[k][hi], c),
                           RAdd(RMul(qu, lat[k][hi + 1]),
                                RMul(qd, lat[k + 1][hi + 1]))))]),
             rt, c, qu, qd, hi - 1, lo)

\* ExerciseFloor with np.minimum for np.maximum
ExerciseFloor_minimum(lat, ot) ==
    SetCol(lat, ot, [k \in 0..ot |-> IF RLe(lat[k][ot], Zero) THEN lat[k][ot] ELSE Zero])

\* line 161: the exercise floor np.maximum(lat[:ot + 1, ot], 0)
ExerciseFloor(lat, ot) == SetCol(lat, ot, [k \in 0..ot |-> RMax(lat[k][ot], Zero)])

\* swaption_price(notional_value, ot, c, t, ...) for 0 <= ot < t
swaption_price(notional_value, ot, c, t, r, u, d, qu, qd) ==
    LET rt == rates_tree(r, u, d, t - 1)
        s1 == SwapCols(SwapTerminal(rt, c, t), rt, c, qu, qd, t - 2, ot)
        s2 == ExerciseFloor(s1, ot)
        s3 == DiscountCols(s2, rt, qu, qd, Zero, ot - 1, 0)
    IN  RMul(notional_value, s3[0][0])

----------------------------------------------------------------------------
(* BDT_rates_model_ZCB_pricing.py *)

\* b is held as a whole number of units of ln 2, so that np.exp(b*k) is the
\* exact rational 2^(b*k)
RECURSIVE exp(_)
exp(x) ==
    IF x = 0 THEN One
    ELSE IF x > 0 THEN RMul(I(2), exp(x - 1)) ELSE RDiv(exp(x + 1), I(2))

\* Python's a[i] of a vector held as a sequence
Item(a, i) == a[i + 1]

\* BDTColumn without the reversal [::-1]: row k gets exp(b*k)
BDTColumn_unreversed(rt, a, b, i) ==
    SetCol(rt, i, [k \in 0..i |-> RMul(Item(a, i), exp(b * k))])

\* line 43: rt[:i+1, i] = a[i]*np.exp(b*(np.ones(i+1).cumsum() - 1)[::-1]);
\* row k of the reversed vector <<i, i-1, ..., 0>> is i - k
BDTColumn(rt, a, b, i) ==
    SetCol(rt, i, [k \in 0..i |-> RMul(Item(a, i), exp(b * (i - k)))])

RECURSIVE BDTColumns(_, _, _, _, _)
BDTColumns(rt, a, b, t, i) ==
    IF i > t THEN rt ELSE BDTColumns(BDTColumn(rt, a, b, i), a, b, t, i + 1)

\* rates_tree(a, b, t) for t >= 0 and len(a) >= t + 1; line 44 returns rt/100
BDT_rates_tree(a, b, t) ==
    LET rt == BDTColumns(Zeros(t + 1), a, b, t, 0)
    IN  Array([k \in 0..t |-> [j \in 0..t |-> RDiv(rt[k][j], I(100))]])

\* elementary_price_tree(a, b, t, qu) for t >= 1 and len(a) >= t
BDT_elementary_price_tree(a, b, t, qu) ==
    LET qd == RSub(One, qu)
    IN  EptFrom(BDT_rates_tree(a, b, t - 1), t, qu, qd)

\* np.sum(m, axis = 0)[j]
RECURSIVE SumRows(_, _, _)
SumRows(m, j, k) == IF k < 0 THEN Zero ELSE RAdd(SumRows(m, j, k - 1), m[k][j])

ColumnSum(m, j) == SumRows(m, j, Cardinality(DOMAIN m) - 1)

\* ZCB_prices(a, b, t, qu): np.sum(ept, axis = 0)[1:]
ZCB_prices(a, b, t, qu) ==
    LET ept == BDT_elementary_price_tree(a, b, t, qu)
    IN  [n \in 1..t |-> ColumnSum(ept, n)]

\* fred_yield_yrs, line 24
fred_yield_yrs == <<1, 2, 3, 5, 7, 10, 20, 30>>

\* the years of range(1, 31), line 27
LastYear == 30

SelectUpTo(seq, t) == SelectSeq(seq, LAMBDA x : x <= t)

\* np.interp(x, xp, fp) for increasing xp: fp[1] left of xp, fp[-1] right of
\* it, the chord between the two neighbours inside
RECURSIVE Interp(_, _, _, _)
Interp(x, xp, fp, n) ==
    IF x <= xp[1] THEN fp[1]
    ELSE IF x >= xp[Len(xp)] THEN fp[Len(xp)]
    ELSE IF x >= xp[n + 1] THEN Interp(x, xp, fp, n + 1)
    ELSE RAdd(fp[n], RMul(Q(x - xp[n], xp[n + 1] - xp[n]), RSub(fp[n + 1], fp[n])))

\* line 27: [x for x in range(1, 31) if x not in fred_yields and x <= t];
\* fred_yields are the observed yields, so x is compared with the yields
linear_int(fred_yields, t) ==
    SelectSeq([x \in 1..LastYear |-> x],
              LAMBDA x : (\A n \in 1..Len(fred_yields) : fred_yields[n] # I(x)) /\ x <= t)

\* load_market_rates(t) for t >= 1; series[x] is fred.get_series('DGS' + x).iloc[-1]
load_market_rates(series, t) ==
    LET fred_yield_yrs_upto_t == SelectUpTo(fred_yield_yrs, t)
        fred_yields == [n \in 1..Len(fred_yield_yrs_upto_t) |->
                           series[fred_yield_yrs_upto_t[n]]]
        xs == linear_int(fred_yields, t)
    IN  [n \in 1..Len(xs) |-> Interp(xs[n], fred_yield_yrs_upto_t, fred_yields, 1)]

----------------------------------------------------------------------------
(* Inputs *)

MaxT == 3

Horizons == (-1)..MaxT                       \* t, the invalid ones included
Dates == 0..MaxT                             \* ft and ot
InitialRates == {Q(1, 4), I(1)}              \* r > 0
Factors == {<<I(2), Q(1, 2)>>, <<I(4), Q(1, 2)>>, <<I(2), I(1)>>}   \* u > d > 0
Probabilities ==                             \* <<qu, qd>>; the last two invalid
    {<<Q(1, 2), Q(1, 2)>>, <<Q(1, 4), Q(3, 4)>>, <<I(1), I(0)>>, <<I(0), I(1)>>,
     <<I(2), I(-1)>>, <<Q(1, 2), Q(1, 4)>>}
FaceValues == {I(1), I(100)}
Coupons == {Zero, Q(1, 10)}
Notionals == {I(-1), I(1), I(100)}
Strikes == {Zero, I(1), I(3)}
BSteps == {-1, 0, 1}                         \* b, in units of ln 2
QuValues == {Q(1, 2), Q(1, 4), I(0), I(1)}
YieldValues == {I(2), Q(5, 2)}               \* observed yields, in percent
\* parameter vectors a of length n, in percent
AVectors(n) == {[j \in 1..n |-> I(100)], [j \in 1..n |-> I(50 * j)]}
Tenors(t) == {fred_yield_yrs[n] : n \in {m \in DOMAIN fred_yield_yrs : fred_yield_yrs[m] <= t}}

ValidProbabilities(qu, qd) ==
    /\ RLe(Zero, qu) /\ RLe(qu, One)
    /\ RLe(Zero, qd) /\ RLe(qd, One)
    /\ RAdd(qu, qd) = One

----------------------------------------------------------------------------
(* Calls of the module's functions: idle -> called -> idle *)

Num(x) == [kind |-> "number", val |-> x]
Lat(m) == [kind |-> "lattice", val |-> m]
Arr(m) == [kind |-> "array", val |-> m]
Raise(e) == [kind |-> e]
Nothing == [kind |-> "none"]

ScriptIdle == UNCHANGED <<globals, pc, mr, res, zcb, printed>>

Return ==
    /\ call # "none"
    /\ call' = "none"
    /\ args' = <<>>
    /\ ret' = Nothing
    /\ ScriptIdle

Call_rates_tree ==
    /\ call = "none"
    /\ \E r \in InitialRates, f \in Factors, t \in Horizons :
           /\ call' = "rates_tree"
           /\ args' = [r |-> r, u |-> f[1], d |-> f[2], t |-> t]
           /\ ret' = IF rates_tree_raises(t) # "none" THEN Raise(rates_tree_raises(t))
                  ELSE Lat(rates_tree(r, f[1], f[2], t))
    /\ ScriptIdle

Call_elementary_price_tree ==
    /\ call = "none"
    /\ \E r \in InitialRates, f \in Factors, t \in Horizons, q \in Probabilities :
           /\ call' = "elementary_price_tree"
           /\ args' = [r |-> r, u |-> f[1], d |-> f[2], t |-> t, qu |-> q[1], qd |-> q[2]]
           /\ ret' = IF rates_tree_raises(t - 1) # "none"
                  THEN Raise(rates_tree_raises(t - 1))
                  ELSE Lat(elementary_price_tree(r, f[1], f[2], t, q[1], q[2]))
    /\ ScriptIdle

Call_zcb_price ==
    /\ call = "none"
    /\ \E fv \in FaceValues, r \in InitialRates, f \in Factors, t \in Horizons,
          q \in Probabilities :
           /\ call' = "zcb_price"
           /\ args' = [face_value |-> fv, r |-> r, u |-> f[1], d |-> f[2], t |-> t,
                     qu |-> q[1], qd |-> q[2]]
           /\ ret' = IF rates_tree_raises(t - 1) # "none"
                  THEN Raise(rates_tree_raises(t - 1))
                  ELSE Lat(zcb_price(fv, t, r, f[1], f[2], q[1], q[2]))
    /\ ScriptIdle

Call_cb_price ==
    /\ call = "none"
    /\ \E fv \in FaceValues, c \in Coupons, r \in InitialRates, f \in Factors,
          t \in Horizons, q \in Probabilities :
           /\ call' = "cb_price"
           /\ args' = [face_value |-> fv, c |-> c, r |-> r, u |-> f[1], d |-> f[2],
                     t |-> t, qu |-> q[1], qd |-> q[2]]
           /\ ret' = IF rates_tree_raises(t - 1) # "none"
                  THEN Raise(rates_tree_raises(t - 1))
                  ELSE Num(cb_price(fv, t, c, r, f[1], f[2], q[1], q[2]))
    /\ ScriptIdle

\* ft >= t: rt[:i+1, i] at i = ft is out of the t columns of rt (line 83);
\* ft = 0: zcb_price(1, 0, ...) is rates_tree(r, u, d, -1) (line 85)
Call_cb_forward_price ==
    /\ call = "none"
    /\ \E fv \in FaceValues, c \in Coupons, r \in InitialRates, f \in Factors,
          t \in Horizons, ft \in Dates, q \in Probabilities :
           /\ call' = "cb_forward_price"
           /\ args' = [face_value |-> fv, ft |-> ft, c |-> c, r |-> r, u |-> f[1],
                     d |-> f[2], t |-> t, qu |-> q[1], qd |-> q[2]]
           /\ ret' = IF rates_tree_raises(t - 1) # "none"
                  THEN Raise(rates_tree_raises(t - 1))
                  ELSE IF ft >= t THEN Raise("IndexError")
                  ELSE IF rates_tree_raises(ft - 1) # "none"
                  THEN Raise(rates_tree_raises(ft - 1))
                  ELSE Arr(cb_forward_price(fv, ft, t, c, r, f[1], f[2], q[1], q[2]))
    /\ ScriptIdle

\* ft >= t: rt[:ft+1, ft] is out of the t columns of rt (line 99)
Call_cb_futures_price ==
    /\ call = "none"
    /\ \E fv \in FaceValues, c \in Coupons, r \in InitialRates, f \in Factors,
          t \in Horizons, ft \in Dates, q \in Probabilities :
           /\ call' = "cb_futures_price"
           /\ args' = [face_value |-> fv, ft |-> ft, c |-> c, r |-> r, u |-> f[1],
                     d |-> f[2], t |-> t, qu |-> q[1], qd |-> q[2]]
           /\ ret' = IF rates_tree_raises(t - 1) # "none"
                  THEN Raise(rates_tree_raises(t - 1))
                  ELSE IF ft >= t THEN Raise("IndexError")
                  ELSE Num(cb_futures_price(fv, ft, t, c, r, f[1], f[2], q[1], q[2]))
    /\ ScriptIdle

\* ot >= t: swaption_lattice[:ot + 1, ot] is out of its t columns (line 161)
Call_swaption_price ==
    /\ call = "none"
    /\ \E nv \in Notionals, c \in Strikes, r \in InitialRates, f \in Factors,
          t \in Horizons, ot \in Dates, q \in Probabilities :
           /\ call' = "swaption_price"
           /\ args' = [notional_value |-> nv, ot |-> ot, c |-> c, r |-> r, u |-> f[1],
                     d |-> f[2], t |-> t, qu |-> q[1], qd |-> q[2]]
           /\ ret' = IF rates_tree_raises(t - 1) # "none"
                  THEN Raise(rates_tree_raises(t - 1))
                  ELSE IF ot >= t THEN Raise("IndexError")
                  ELSE Num(swaption_price(nv, ot, c, t, r, f[1], f[2], q[1], q[2]))
    /\ ScriptIdle

\* len(a) < t + 1: a[i] is out of range (line 43)
Call_BDT_rates_tree ==
    /\ call = "none"
    /\ \E n \in 1..(MaxT + 1), b \in BSteps, t \in 0..MaxT :
         \E a \in AVectors(n) :
           /\ call' = "BDT.rates_tree"
           /\ args' = [a |-> a, b |-> b, t |-> t]
           /\ ret' = IF Len(a) < t + 1 THEN Raise("IndexError")
                     ELSE Lat(BDT_rates_tree(a, b, t))
    /\ ScriptIdle

Call_BDT_elementary_price_tree ==
    /\ call = "none"
    /\ \E n \in 1..MaxT, b \in BSteps, t \in 1..MaxT, qu \in QuValues :
         \E a \in AVectors(n) :
           /\ call' = "BDT.elementary_price_tree"
           /\ args' = [a |-> a, b |-> b, t |-> t, qu |-> qu]
           /\ ret' = IF Len(a) < t THEN Raise("IndexError")
                     ELSE Lat(BDT_elementary_price_tree(a, b, t, qu))
    /\ ScriptIdle

Call_ZCB_prices ==
    /\ call = "none"
    /\ \E n \in 1..MaxT, b \in BSteps, t \in 1..MaxT, qu \in QuValues :
         \E a \in AVectors(n) :
           /\ call' = "BDT.ZCB_prices"
           /\ args' = [a |-> a, b |-> b, t |-> t, qu |-> qu]
           /\ ret' = IF Len(a) < t THEN Raise("IndexError")
                     ELSE Arr(ZCB_prices(a, b, t, qu))
    /\ ScriptIdle

Call_load_market_rates ==
    /\ call = "none"
    /\ \E t \in 1..LastYear :
         \E series \in [Tenors(t) -> YieldValues] :
           /\ call' = "BDT.load_market_rates"
           /\ args' = [t |-> t, series |-> series]
           /\ ret' = Arr(load_market_rates(series, t))
    /\ ScriptIdle

Init ==
    /\ call = "none"
    /\ args = <<>>
    /\ ret = Nothing
    /\ globals = <<>>
    /\ pc = "off"
    /\ mr = <<>>
    /\ res = Nothing
    /\ zcb = <<>>
    /\ printed = <<>>

Next ==
    \/ Call_rates_tree
    \/ Call_elementary_price_tree
    \/ Call_zcb_price
    \/ Call_cb_price
    \/ Call_cb_forward_price
    \/ Call_cb_futures_price
    \/ Call_swaption_price
    \/ Call_BDT_rates_tree
    \/ Call_BDT_elementary_price_tree
    \/ Call_ZCB_prices
    \/ Call_load_market_rates
    \/ Return

Spec == Init /\ [][Next]_vars

----------------------------------------------------------------------------
(* The calibration script, BDT_rates_model_ZCB_pricing.py lines 98-113.    *)
(* The horizon t (30 in the source) and b (0.005) are drawn from bounded   *)
(* sets; qu = 0.5 and face_value = 100 are the source's.                   *)

LibraryIdle == UNCHANGED <<call, args, ret>>

\* the cents of f'{x:.2f}' for x >= 0: x*100 to the nearest whole, ties to even
Cents(x) ==
    LET y == RMul(x, I(100))
        fl == y[1] \div y[2]
        twice == 2 * (y[1] % y[2])
    IN  IF twice < y[2] THEN fl
        ELSE IF twice > y[2] THEN fl + 1
        ELSE IF fl % 2 = 0 THEN fl ELSE fl + 1

InitScript ==
    /\ call = "none"
    /\ args = <<>>
    /\ ret = Nothing
    /\ globals \in [b : BSteps, t : 1..MaxT, qu : {Q(1, 2)}, face_value : {I(100)}]
    /\ pc = "load"
    /\ mr = <<>>
    /\ res = Nothing
    /\ zcb = <<>>
    /\ printed = <<>>

\* line 103: mr = load_market_rates(t)/100
Load ==
    /\ pc = "load"
    /\ \E series \in [Tenors(globals.t) -> YieldValues] :
           LET yields == load_market_rates(series, globals.t)
           IN  mr' = [n \in 1..Len(yields) |-> RDiv(yields[n], I(100))]
    /\ pc' = "minimize"
    /\ UNCHANGED <<globals, res, zcb, printed>>
    /\ LibraryIdle

\* lines 104-105: res = minimize(objective, a, args=(b, t, qu, mr)).  The
\* optimizer's result is any vector of the shape of a, with either flag;
\* objective's mr - BDT_spot_rates(a, b, t, qu) raises ValueError when the
\* shapes (len(mr),) and (t,) do not broadcast
Minimize ==
    /\ pc = "minimize"
    /\ \/ /\ Len(mr) # globals.t /\ Len(mr) # 1 /\ globals.t # 1
          /\ pc' = "ValueError"
          /\ res' = res
       \/ /\ Len(mr) = globals.t \/ Len(mr) = 1 \/ globals.t = 1
          /\ \E x \in AVectors(globals.t), success \in BOOLEAN :
                 res' = [kind |-> "OptimizeResult", success |-> success, x |-> x,
                         message |-> IF success
                                     THEN "Optimization terminated successfully."
                                     ELSE "Desired error not necessarily achieved due to precision loss."]
          /\ pc' = "zcb"
    /\ UNCHANGED <<globals, mr, zcb, printed>>
    /\ LibraryIdle

\* lines 106-108: optimal_a = res.x; zcb = face_value*ZCB_prices(optimal_a, b, t, qu)
ComputeZCB ==
    /\ pc = "zcb"
    /\ LET prices == ZCB_prices(res.x, globals.b, globals.t, globals.qu)
       IN  zcb' = [n \in 1..globals.t |-> RMul(globals.face_value, prices[n])]
    /\ pc' = "header"
    /\ UNCHANGED <<globals, mr, res, printed>>
    /\ LibraryIdle

\* lines 109-110: the two header lines
PrintHeader ==
    /\ pc = "header"
    /\ printed' = <<[header |-> "Zero Coupon Bond Prices with face value $",
                     face_value |-> globals.face_value],
                    [rule |-> "----------------------------------------------------"]>>
    /\ pc' = "print"
    /\ UNCHANGED <<globals, mr, res, zcb>>
    /\ LibraryIdle

\* lines 112-113: for i in range(t): print(f'{i+1}-year: ${zcb[i]:.2f}')
PrintLine ==
    /\ pc = "print"
    /\ LET i == Len(printed) - 2
       IN  /\ printed' = Append(printed, [year |-> i + 1, cents |-> Cents(Item(zcb, i))])
           /\ pc' = IF i + 1 < globals.t THEN "print" ELSE "done"
    /\ UNCHANGED <<globals, mr, res, zcb>>
    /\ LibraryIdle

NextScript ==
    \/ Load
    \/ Minimize
    \/ ComputeZCB
    \/ PrintHeader
    \/ PrintLine

SpecScript == InitScript /\ [][NextScript]_vars

----------------------------------------------------------------------------
(* Properties *)

PositiveRates(r, u, d) == RLt(Zero, r) /\ RLt(Zero, d) /\ RLt(d, u)

\* C1: for valid probabilities and every maturity n in 1..t, the root of
\* zcb_price(face_value, n, ...) equals face_value times the sum of column n
\* of elementary_price_tree(r, u, d, t, qu, qd).
C1_ZcbEqualsScaledColumnSum ==
    (/\ call = "elementary_price_tree"
     /\ ret.kind = "lattice"
     /\ PositiveRates(args.r, args.u, args.d)
     /\ ValidProbabilities(args.qu, args.qd))
    => \A n \in 1..args.t : \A fv \in FaceValues :
           zcb_price(fv, n, args.r, args.u, args.d, args.qu, args.qd)[0][0]
               = RMul(fv, ColumnSum(ret.val, n))

\* the column sums 1..t of the elementary price lattice a call returned
StrictlyDecreasingInUnitInterval(sums, t) ==
    \A n \in 1..t :
        /\ RLt(Zero, sums[n])
        /\ RLe(sums[n], One)
        /\ n >= 2 => RLt(sums[n], sums[n - 1])

\* C2: for valid t and qu over positive rates, the column sums of the
\* elementary price lattice for columns 1..t are strictly decreasing and each
\* lies in (0, 1].
C2_ColumnSumsDecreasingInUnitInterval ==
    /\ (/\ call = "elementary_price_tree"
        /\ ret.kind = "lattice"
        /\ PositiveRates(args.r, args.u, args.d)
        /\ ValidProbabilities(args.qu, args.qd))
       => StrictlyDecreasingInUnitInterval(
              [n \in 1..args.t |-> ColumnSum(ret.val, n)], args.t)
    /\ (/\ call = "BDT.elementary_price_tree"
        /\ ret.kind = "lattice"
        /\ RLe(Zero, args.qu) /\ RLe(args.qu, One))
       => StrictlyDecreasingInUnitInterval(
              [n \in 1..args.t |-> ColumnSum(ret.val, n)], args.t)
    /\ (/\ call = "BDT.ZCB_prices"
        /\ ret.kind = "array"
        /\ RLe(Zero, args.qu) /\ RLe(args.qu, One))
       => StrictlyDecreasingInUnitInterval(ret.val, args.t)

\* the observed tenors bracketing year k
TenorBelow(k, t) == CHOOSE x \in Tenors(t) : x < k /\ \A y \in Tenors(t) : y < k => y <= x
TenorAbove(k, t) == CHOOSE x \in Tenors(t) : x > k /\ \A y \in Tenors(t) : y > k => x <= y

\* C3: load_market_rates(t) returns exactly t entries, the k-th the rate of
\* year k: the observed yield at an observed tenor, the linear interpolation
\* between the two bracketing observed tenors otherwise; no year is left out
\* whatever the observed yields are.
C3_DenseYearlyCurve ==
    call = "BDT.load_market_rates"
    => /\ ret.kind = "array"
       /\ Len(ret.val) = args.t
       /\ \A k \in 1..args.t :
              /\ k \in Tenors(args.t) => ret.val[k] = args.series[k]
              /\ (k \notin Tenors(args.t) /\ \E x \in Tenors(args.t) : x > k)
                 => LET lo == TenorBelow(k, args.t)
                        hi == TenorAbove(k, args.t)
                    IN  ret.val[k] =
                            RAdd(args.series[lo],
                                 RMul(Q(k - lo, hi - lo),
                                      RSub(args.series[hi], args.series[lo])))

\* C4: when the minimizer reports failure, the script ends in a
\* CalibrationFailed outcome carrying the optimizer's message, and no
\* zero-coupon bond price is computed or printed from the failed vector.
C4_FailedCalibrationNotUsed ==
    (res.kind = "OptimizeResult" /\ ~res.success)
    => /\ zcb = <<>>
       /\ printed = <<>>
       /\ pc \in {"zcb", "CalibrationFailed"}
       /\ pc = "CalibrationFailed" => ret = [kind |-> "CalibrationFailed", message |-> res.message]

InvalidParameters ==
    /\ call \in {"elementary_price_tree", "zcb_price", "cb_price",
                 "cb_forward_price", "cb_futures_price", "swaption_price"}
    /\ \/ args.t < 0
       \/ ~ValidProbabilities(args.qu, args.qd)
       \/ call \in {"cb_forward_price", "cb_futures_price"} /\ args.ft >= args.t
       \/ call = "swaption_price" /\ args.ot >= args.t

\* C5: every pricer call with invalid parameters (ft >= t, ot >= t,
\* probabilities outside [0,1] or not summing to 1, negative t) ends in an
\* InvalidParameters error and never returns a price or a lattice.
C5_InvalidParametersRejected ==
    InvalidParameters => ret.kind = "InvalidParameters"

\* the forward-starting swap of C6: the swaption's lattice without the
\* exercise floor at column ot, scaled by the notional
ForwardSwapValue(notional_value, ot, c, t, r, u, d, qu, qd) ==
    LET rt == rates_tree(r, u, d, t - 1)
        s1 == SwapCols(SwapTerminal(rt, c, t), rt, c, qu, qd, t - 2, ot)
        s3 == DiscountCols(s1, rt, qu, qd, Zero, ot - 1, 0)
    IN  RMul(notional_value, s3[0][0])

ArgsForwardSwapValue ==
    ForwardSwapValue(args.notional_value, args.ot, args.c, args.t,
                     args.r, args.u, args.d, args.qu, args.qd)

SwaptionPriced ==
    /\ call = "swaption_price"
    /\ ret.kind = "number"
    /\ PositiveRates(args.r, args.u, args.d)
    /\ ValidProbabilities(args.qu, args.qd)

\* C6 as stated: for all valid ot < t and every notional_value, c, r, u, d,
\* qu, qd, the swaption price is at least max(V, 0), V the forward-starting
\* swap's value today.
C6_SwaptionAtLeastFlooredSwap_AnyNotional ==
    SwaptionPriced => RLe(RMax(ArgsForwardSwapValue, Zero), ret.val)

\* C6 (amended): the same for every notional_value >= 0.
C6_SwaptionAtLeastFlooredSwap ==
    (SwaptionPriced /\ RLe(Zero, args.notional_value))
    => RLe(RMax(ArgsForwardSwapValue, Zero), ret.val)

\* a swaption whose exercise floor binds in some state of column ot >= 1
C6_Witness ==
    /\ SwaptionPriced
    /\ RLt(Zero, args.notional_value)
    /\ args.ot >= 1
    /\ RLt(RMax(ArgsForwardSwapValue, Zero), ret.val)

\* C7: cb_price(face_value, t, 0, ...) equals zcb_price(face_value, t, ...)[0,0]
\* for every t >= 1.
C7_ZeroCouponBondDegenerates ==
    (call = "cb_price" /\ ret.kind = "number" /\ args.c = Zero)
    => ret.val = zcb_price(args.face_value, args.t, args.r, args.u, args.d,
                           args.qu, args.qd)[0][0]

C7_Witness ==
    /\ call = "cb_price"
    /\ ret.kind = "number"
    /\ args.c = Zero
    /\ args.t >= 2
    /\ args.qu # args.qd

\* the root of the forward's coupon-bond lattice: coupons in columns
\* ft+1..t, no coupon in columns ft..0
ForwardRoot(face_value, ft, t, c, r, u, d, qu, qd) ==
    LET rt == rates_tree(r, u, d, t - 1)
        cb0 == SetLast(Zeros(t + 1), 
                       [k \in 0..t |-> RMul(RAdd(One, c), face_value)])
        cb1 == DiscountCols(cb0, rt, qu, qd, RMul(face_value, c), t - 1, ft + 1)
    IN  DiscountCols(cb1, rt, qu, qd, Zero, ft, 0)[0][0]

\* C8: for 0 < ft < t, cb_forward_price returns one number, the root of the
\* coupon-bond lattice divided by zcb_price(1, ft, ...)[0,0].
C8_ForwardPriceIsOneNumber ==
    (call = "cb_forward_price" /\ 0 < args.ft /\ args.ft < args.t)
    => /\ ret.kind = "number"
       /\ ret.val = RDiv(ForwardRoot(args.face_value, args.ft, args.t, args.c,
                                     args.r, args.u, args.d, args.qu, args.qd),
                         zcb_price(One, args.ft, args.r, args.u, args.d,
                                   args.qu, args.qd)[0][0])

\* C9: rates_tree(r, u, d, t) is a (t+1) x (t+1) lattice with
\* rate(i,j) = r*u^(j-i)*d^i for i <= j and 0 for i > j, and the lattice of a
\* horizon t' <= t is its top-left (t'+1) x (t'+1) block.
C9_RatesTreeClosedForm ==
    (call = "rates_tree" /\ ret.kind = "lattice")
    => /\ DOMAIN ret.val = 0..args.t
       /\ \A i \in 0..args.t : DOMAIN ret.val[i] = 0..args.t
       /\ \A i, j \in 0..args.t :
              ret.val[i][j] =
                  IF i <= j
                  THEN RMul(args.r, RMul(RPow(args.u, j - i), RPow(args.d, i)))
                  ELSE Zero
       /\ \A s \in 0..args.t : \A i, j \in 0..s :
              rates_tree(args.r, args.u, args.d, s)[i][j] = ret.val[i][j]

C9_Witness ==
    /\ call = "rates_tree"
    /\ ret.kind = "lattice"
    /\ args.t >= 2
    /\ RMul(args.u, args.d) # One
    /\ ret.val[2][2] # ret.val[0][0]

============================================================================
